---- MODULE Spec2Model ----
(***************************************************************************)
(* CoverageIQ / Vantage: Slack time-off reconciliation of member           *)
(* availability (apply_timeoff_entries, restore_expired_slack_ooo, manual  *)
(* overrides) and the fuzzy identity matcher (_best_member_match).         *)
(***************************************************************************)
EXTENDS Integers, Sequences, FiniteSets, TLC

VARIABLES members, now, lastOp, lastEntries, lastResult, restored, matched,
          matchRef, matchRoster, matchResult,
          scoreSkill, scoreCal, score,
          mockSuggestions, scoredIds, membersLoaded, rankPhase,
          taskSuggestions, sortedSuggestions,
          serverTasks, clientTasks, taskStatusOverrides, pipelineRunning,
          request, taskOp, toast, scoredLength, taskSuggestionsLength,
          syncs,
          pass, seen,
          pingSent, pingRequests,
          signInPage, attempts

vars == <<members, now, lastOp, lastEntries, lastResult, restored, matched,
          matchRef, matchRoster, matchResult,
          scoreSkill, scoreCal, score,
          mockSuggestions, scoredIds, membersLoaded, rankPhase,
          taskSuggestions, sortedSuggestions,
          serverTasks, clientTasks, taskStatusOverrides, pipelineRunning,
          request, taskOp, toast, scoredLength, taskSuggestionsLength,
          syncs,
          pass, seen,
          pingSent, pingRequests,
          signInPage, attempts>>

syncVars == <<members, now, lastOp, lastEntries, lastResult, restored, matched>>
matchVars == <<matchRef, matchRoster, matchResult>>
scoreVars == <<scoreSkill, scoreCal, score>>
rankVars == <<mockSuggestions, scoredIds, membersLoaded, rankPhase,
              taskSuggestions, sortedSuggestions>>
taskVars == <<serverTasks, clientTasks, taskStatusOverrides, pipelineRunning,
              request, taskOp, toast, scoredLength, taskSuggestionsLength>>
passVars == <<pass, seen>>
pingVars == <<pingSent, pingRequests>>
signInVars == <<signInPage, attempts>>
\* everything outside the reconciliation and the matcher
extVars == <<scoreVars, rankVars, taskVars, syncs, passVars, pingVars, signInVars>>
\* everything outside the score, outside the ranking, outside the tasks
scoreOthers == <<syncVars, matchVars, rankVars, taskVars, syncs, passVars,
                 pingVars, signInVars>>
rankOthers == <<syncVars, matchVars, scoreVars, taskVars, syncs, passVars,
                pingVars, signInVars>>
taskOthers == <<syncVars, matchVars, scoreVars, rankVars, syncs, passVars,
                pingVars, signInVars>>
\* everything outside the member table and the sync requests
requestOthers == <<matchVars, scoreVars, rankVars, taskVars, passVars, pingVars,
                   signInVars>>
\* everything outside the member table and the apply pass
passOthers == <<matchVars, scoreVars, rankVars, taskVars, syncs, pingVars,
                signInVars>>
\* everything outside the pings, and outside the sign-in page
pingOthers == <<syncVars, matchVars, scoreVars, rankVars, taskVars, syncs,
                passVars, signInVars>>
signInOthers == <<syncVars, matchVars, scoreVars, rankVars, taskVars, syncs,
                  passVars, pingVars>>

\* ------------------------------------------------------------------------
\* Bounds
\* ------------------------------------------------------------------------
\* Last day the clock reaches (days are integers, day 0 is the first day).
MaxTime == 2
\* Longest list of time-off messages one sync pass applies.
MaxEntries == 1
\* Longest roster handed to the matcher in MatchSpec.
MaxRoster == 2
\* Largest percentage (calendarPct and skillMatchPct are 0-100).
MaxPct == 100
\* Longest list of suggestions of the selected task.
MaxSuggestions == 2
\* Longest list of time-off messages one apply pass works through entry by
\* entry (PassSpec).
MaxPassEntries == 2
\* Most clicks on Check availability followed for one (task, member) pair.
MaxPings == 2
\* Most sign-in attempts followed at the same time.
MaxAttempts == 2

\* ------------------------------------------------------------------------
\* Values
\* ------------------------------------------------------------------------
\* null / None of an optional date
Null == -1
\* no member (None returned by _best_member_match)
NoMember == "none"
\* a result that has not been computed yet
Pending == "pending"

\* ------------------------------------------------------------------------
\* Strings are sequences of one-character strings.
\* ------------------------------------------------------------------------
UpperChars == <<"A","B","C","D","E","F","G","H","I","J","K","L","M",
                "N","O","P","Q","R","S","T","U","V","W","X","Y","Z">>
LowerChars == <<"a","b","c","d","e","f","g","h","i","j","k","l","m",
                "n","o","p","q","r","s","t","u","v","w","x","y","z">>

\* str.lower() on one character
LowerChar(c) ==
  IF \E i \in 1..Len(UpperChars) : UpperChars[i] = c
  THEN LowerChars[CHOOSE i \in 1..Len(UpperChars) : UpperChars[i] = c]
  ELSE c

\* str.lower()
ToLower(s) == [i \in 1..Len(s) |-> LowerChar(s[i])]

\* str.lstrip("@"): removes every leading "@"
RECURSIVE LStripAt(_)
LStripAt(s) ==
  IF s # <<>> /\ Head(s) = "@" THEN LStripAt(Tail(s)) ELSE s

\* str.replace(".", " ")
ReplaceDots(s) == [i \in 1..Len(s) |-> IF s[i] = "." THEN " " ELSE s[i]]

RECURSIVE LStripSpace(_)
LStripSpace(s) ==
  IF s # <<>> /\ Head(s) = " " THEN LStripSpace(Tail(s)) ELSE s

RECURSIVE RStripSpace(_)
RStripSpace(s) ==
  IF s # <<>> /\ s[Len(s)] = " "
  THEN RStripSpace(SubSeq(s, 1, Len(s) - 1))
  ELSE s

\* str.strip()
Strip(s) == RStripSpace(LStripSpace(s))

\* norm = username.lstrip("@").replace(".", " ").strip().lower()
Normalise(username) == ToLower(Strip(ReplaceDots(LStripAt(username))))

\* ------------------------------------------------------------------------
\* difflib.SequenceMatcher(None, a, b).ratio()
\* ------------------------------------------------------------------------
\* Length of the common run of a[i..ahi] and b[j..bhi] starting at i and j.
RECURSIVE RunLen(_, _, _, _, _, _)
RunLen(a, i, ahi, b, j, bhi) ==
  IF i <= ahi /\ j <= bhi /\ a[i] = b[j]
  THEN 1 + RunLen(a, i + 1, ahi, b, j + 1, bhi)
  ELSE 0

SetMax(S) == CHOOSE x \in S : \A y \in S : y <= x
SetMin(S) == CHOOSE x \in S : \A y \in S : x <= y

\* find_longest_match(alo, ahi, blo, bhi): the longest matching block of
\* a[alo..ahi] and b[blo..bhi]; among the longest, the one starting earliest
\* in a, and among those the one starting earliest in b.  <<i, j, size>>.
FindLongestMatch(a, alo, ahi, b, blo, bhi) ==
  IF alo > ahi \/ blo > bhi THEN <<alo, blo, 0>>
  ELSE
    LET size == SetMax({RunLen(a, i, ahi, b, j, bhi) :
                          i \in alo..ahi, j \in blo..bhi})
    IN IF size = 0 THEN <<alo, blo, 0>>
       ELSE
         LET besti == SetMin({i \in alo..ahi :
                        \E j \in blo..bhi : RunLen(a, i, ahi, b, j, bhi) = size})
             bestj == SetMin({j \in blo..bhi :
                        RunLen(a, besti, ahi, b, j, bhi) = size})
         IN <<besti, bestj, size>>

\* get_matching_blocks(): the summed size of the matching blocks, found by
\* splitting recursively to the left and to the right of the longest match.
RECURSIVE MatchingSize(_, _, _, _, _, _)
MatchingSize(a, alo, ahi, b, blo, bhi) ==
  LET m == FindLongestMatch(a, alo, ahi, b, blo, bhi)
  IN IF m[3] = 0 THEN 0
     ELSE m[3]
          + MatchingSize(a, alo, m[1] - 1, b, blo, m[2] - 1)
          + MatchingSize(a, m[1] + m[3], ahi, b, m[2] + m[3], bhi)

\* ratio() = 2.0 * matches / (len(a) + len(b)), and 1.0 when both are empty.
\* A ratio is kept exact, as <<numerator, denominator>>.
Ratio(a, b) ==
  IF Len(a) + Len(b) = 0 THEN <<1, 1>>
  ELSE <<2 * MatchingSize(a, 1, Len(a), b, 1, Len(b)), Len(a) + Len(b)>>

RatioGT(r, s) == r[1] * s[2] > s[1] * r[2]
RatioGE(r, s) == r[1] * s[2] >= s[1] * r[2]

\* the threshold 0.75 of _best_member_match
Threshold == <<3, 4>>

\* ------------------------------------------------------------------------
\* _best_member_match(username, members)
\* ------------------------------------------------------------------------
\* Mutant: the comparison of the loop written with >= instead of >.
BestStepLast(best, norm, m, nameOf) ==
  LET ratio == Ratio(norm, ToLower(nameOf[m]))
  IN IF RatioGE(ratio, best[1]) THEN <<ratio, m>> ELSE best

\* One turn of the loop: (best_ratio, best_member) after looking at member m.
BestStep(best, norm, m, nameOf) ==
  LET ratio == Ratio(norm, ToLower(nameOf[m]))
  IN IF RatioGT(ratio, best[1]) THEN <<ratio, m>> ELSE best

RECURSIVE BestLoop(_, _, _, _)
BestLoop(best, norm, roster, nameOf) ==
  IF roster = <<>> THEN best
  ELSE BestLoop(BestStep(best, norm, Head(roster), nameOf), norm,
                Tail(roster), nameOf)

\* Mutant: the threshold test written with > instead of >=.
BestMemberMatchStrict(username, roster, nameOf) ==
  LET norm == Normalise(username)
      best == BestLoop(<<<<0, 1>>, NoMember>>, norm, roster, nameOf)
  IN IF RatioGT(best[1], Threshold) THEN best[2] ELSE NoMember

\* roster: sequence of member ids in iteration order; nameOf: id -> name.
BestMemberMatch(username, roster, nameOf) ==
  LET norm == Normalise(username)
      best == BestLoop(<<<<0, 1>>, NoMember>>, norm, roster, nameOf)
  IN IF RatioGE(best[1], Threshold) THEN best[2] ELSE NoMember

\* ------------------------------------------------------------------------
\* Roster and the announcements a sync pass can receive
\* ------------------------------------------------------------------------
\* Members in roster iteration order.
Roster == <<"mem-1", "mem-2">>
MemberIds == {Roster[i] : i \in 1..Len(Roster)}

\* Member ids the matcher is handed in MatchSpec.
PoolIds == {"mem-1", "mem-2", "mem-3"}

\* TeamMember.name
MemberName ==
  [m \in PoolIds |->
     CASE m = "mem-1" -> <<"J","o","r","d","a","n"," ","L","e","e">>
       [] m = "mem-2" -> <<"M","a","y","a"," ","P","a","t","e","l">>
       [] OTHER -> <<"M","a","y","a"," ","P","a","t","i","l">>]

\* leaveStatus values a manual override may set
Statuses == {"available", "partial", "ooo"}

\* person_username values of the parsed Slack messages
RefJordan == <<"@","j","o","r","d","a","n",".","l","e","e">>
RefMaya == <<"M","a","y","a",".","P","a","t","e","l">>
RefFirstName == <<"m","a","y","a">>
Refs == {RefJordan, RefMaya, RefFirstName}

\* TimeOffEntry: what fetch_and_parse returns for one time-off message
TimeOffEntry(ref, start, end) ==
  [personUsername |-> ref,
   startDate |-> start,
   endDate |-> end,
   reason |-> IF ref = RefJordan THEN "vacation" ELSE "none",
   coverageUsername |-> IF ref = RefJordan THEN "alex" ELSE "none"]

\* The time-off messages a Slack channel holds in the model: a closed window,
\* an open-ended and a one-day announcement that start later, one whose end
\* date is before its start date, an announcement by first name only, and one
\* without a start date.
Entries ==
  {TimeOffEntry(RefJordan, 0, 1),
   TimeOffEntry(RefMaya, 1, Null),
   TimeOffEntry(RefMaya, 2, 2),
   TimeOffEntry(RefMaya, 2, 0),
   TimeOffEntry(RefFirstName, 0, Null),
   TimeOffEntry(RefJordan, Null, 1)}

RECURSIVE SeqsUpTo(_, _)
SeqsUpTo(S, n) ==
  IF n = 0 THEN {<<>>}
  ELSE LET shorter == SeqsUpTo(S, n - 1)
       IN shorter \cup {Append(q, x) : q \in {r \in shorter : Len(r) = n - 1}, x \in S}

EntryLists == SeqsUpTo(Entries, MaxEntries)

\* ------------------------------------------------------------------------
\* Member records
\* ------------------------------------------------------------------------
\* Row "DB seed default" of the override table.
SeedMember ==
  [leaveStatus |-> "available", isOOO |-> FALSE, manuallyOverridden |-> FALSE,
   slackOooStart |-> Null, slackOooUntil |-> Null, source |-> "default"]

\* ------------------------------------------------------------------------
\* apply_timeoff_entries
\* ------------------------------------------------------------------------
\* Mutant: the last day of the range is not counted (today < end_date).
IsActiveBeforeEnd(e, today) ==
  /\ e.startDate # Null
  /\ e.startDate <= today
  /\ (e.endDate = Null \/ today < e.endDate)

\* start_date <= today <= end_date (or no end_date)
IsActive(e, today) ==
  /\ e.startDate # Null
  /\ e.startDate <= today
  /\ (e.endDate = Null \/ today <= e.endDate)

\* the entry's date range has already passed: both of its dates are before
\* today
IsStale(e, today) ==
  /\ e.startDate # Null /\ e.startDate < today
  /\ e.endDate # Null /\ e.endDate < today

\* start_date is still in the future
IsFuture(e, today) == e.startDate # Null /\ e.startDate > today

\* Mutant: the change record never carries the pending flag.
OOOChangeNotPending(m, e, isPending) ==
  [memberId |-> m, memberName |-> MemberName[m],
   personUsername |-> e.personUsername,
   startDate |-> e.startDate, endDate |-> e.endDate,
   reason |-> e.reason, coverageBy |-> e.coverageUsername,
   pending |-> FALSE]

\* MemberOOOChange
OOOChange(m, e, isPending) ==
  [memberId |-> m, memberName |-> MemberName[m],
   personUsername |-> e.personUsername,
   startDate |-> e.startDate, endDate |-> e.endDate,
   reason |-> e.reason, coverageBy |-> e.coverageUsername,
   pending |-> isPending]

\* Mutant: the end date of the entry is not stored.
MarkOOOOpenEnded(rec, e) ==
  [rec EXCEPT !.leaveStatus = "ooo", !.isOOO = TRUE,
              !.slackOooStart = e.startDate, !.slackOooUntil = Null,
              !.manuallyOverridden = FALSE, !.source = "slack"]

\* The member record after an active entry matched it.
MarkOOO(rec, e) ==
  [rec EXCEPT !.leaveStatus = "ooo", !.isOOO = TRUE,
              !.slackOooStart = e.startDate, !.slackOooUntil = e.endDate,
              !.manuallyOverridden = FALSE, !.source = "slack"]

\* The member record after a future entry matched it: the start of the
\* announced absence is stored, the status is left alone.
MarkPending(rec, e) == [rec EXCEPT !.slackOooStart = e.startDate]

\* One entry of the loop.  acc: the member table and the counters so far.
\* matched[ref] is _best_member_match(ref, roster): the names of the roster
\* never change, so the match of every reference is computed once, in Init.
ApplyEntry(acc, e, today) ==
  LET m == matched[e.personUsername]
  IN IF m = NoMember
     THEN [acc EXCEPT !.skipped = @ + 1]
     ELSE IF IsActive(e, today)
     THEN [acc EXCEPT !.mem[m] = MarkOOO(@, e),
                      !.applied = @ + 1,
                      !.changes = Append(@, OOOChange(m, e, FALSE))]
     ELSE IF IsStale(e, today)
     THEN [acc EXCEPT !.skipped = @ + 1]
     ELSE IF IsFuture(e, today)
     THEN [acc EXCEPT !.mem[m] = MarkPending(@, e),
                      !.applied = @ + 1,
                      !.pending = @ + 1,
                      !.changes = Append(@, OOOChange(m, e, TRUE))]
     ELSE [acc EXCEPT !.skipped = @ + 1]

RECURSIVE ApplyLoop(_, _, _)
ApplyLoop(acc, entries, today) ==
  IF entries = <<>> THEN acc
  ELSE ApplyLoop(ApplyEntry(acc, Head(entries), today), Tail(entries), today)

\* Mutant: detected counts only the entries that matched a member.
DetectedMatched(entries) ==
  Cardinality({i \in 1..Len(entries) :
                 matched[entries[i].personUsername] # NoMember})

\* detected: how many messages were classified as time-off
Detected(entries) == Len(entries)

\* apply_timeoff_entries(db, entries): the member table after the commit and
\* the TimeOffSyncResult.  scanned is the number of Slack messages parsed.
ApplyTimeoffEntries(mem, entries, scanned, today) ==
  LET acc == ApplyLoop([mem |-> mem, applied |-> 0, pending |-> 0,
                        skipped |-> 0, changes |-> <<>>], entries, today)
  IN [mem |-> acc.mem,
      result |-> [scanned |-> scanned, detected |-> Detected(entries),
                  applied |-> acc.applied, pending |-> acc.pending,
                  skipped |-> acc.skipped, changes |-> acc.changes]]

NoResult ==
  [scanned |-> 0, detected |-> 0, applied |-> 0, pending |-> 0,
   skipped |-> 0, changes |-> <<>>]

\* ------------------------------------------------------------------------
\* restore_expired_slack_ooo
\* ------------------------------------------------------------------------
\* Mutant: the comparison written with <= instead of <.
IsExpiredInclusive(rec, today) ==
  rec.slackOooUntil # Null /\ rec.slackOooUntil <= today

\* Mutant: no Slack OOO ever counts as expired.
IsExpiredNever(rec, today) == FALSE

\* slack_ooo_until IS NOT NULL AND slack_ooo_until < now()
IsExpired(rec, today) == rec.slackOooUntil # Null /\ rec.slackOooUntil < today

\* Mutant: slack_ooo_until is not cleared.
RestoreKeepUntil(rec) ==
  [rec EXCEPT !.leaveStatus = "available", !.isOOO = FALSE,
              !.source = "default"]

\* Reset leave_status = 'available', is_ooo = False, slack_ooo_until = None
Restore(rec) ==
  [rec EXCEPT !.leaveStatus = "available", !.isOOO = FALSE,
              !.slackOooUntil = Null, !.source = "default"]

\* Mutant: the sweep restores nobody.
RestoreNobody(mem, today) == [mem |-> mem, ids |-> {}]

RestoreExpiredSlackOoo(mem, today) ==
  [mem |-> [m \in MemberIds |->
              IF IsExpired(mem[m], today) THEN Restore(mem[m]) ELSE mem[m]],
   ids |-> {m \in MemberIds : IsExpired(mem[m], today)}]

\* ------------------------------------------------------------------------
\* Manual override
\* ------------------------------------------------------------------------
\* Mutant: is_ooo is not brought in line with the status.
OverrideStatusOnly(rec, status) ==
  [rec EXCEPT !.leaveStatus = status,
              !.manuallyOverridden = TRUE, !.slackOooUntil = Null,
              !.source = "manual"]

\* Mutant: the override leaves slack_ooo_until as it is.
OverrideKeepUntil(rec, status) ==
  [rec EXCEPT !.leaveStatus = status, !.isOOO = (status = "ooo"),
              !.manuallyOverridden = TRUE, !.source = "manual"]

\* Row "Manual override" of the override table; is_ooo follows the status.
Override(rec, status) ==
  [rec EXCEPT !.leaveStatus = status, !.isOOO = (status = "ooo"),
              !.manuallyOverridden = TRUE, !.slackOooUntil = Null,
              !.source = "manual"]

\* DELETE /api/members/{memberId}/override
Unoverride(rec) ==
  [rec EXCEPT !.manuallyOverridden = FALSE,
              !.source = IF @ = "manual" THEN "default" ELSE @]

\* ------------------------------------------------------------------------
\* JavaScript numbers: IEEE-754 doubles, round to nearest, ties to even.
\* A finite double >= 0 is m * 2^e with m a sequence of 53 bits, most
\* significant first and leading bit 1 (m = <<>> for zero); NaN is apart.
\* ------------------------------------------------------------------------
Zeros(n) == [i \in 1..n |-> 0]
Ones(b) == {i \in 1..Len(b) : b[i] = 1}

StripZeros(b) == IF Ones(b) = {} THEN <<>> ELSE SubSeq(b, SetMin(Ones(b)), Len(b))
TrimRight(b) == IF Ones(b) = {} THEN <<>> ELSE SubSeq(b, 1, SetMax(Ones(b)))

\* binary digits of an integer 0 <= n < 2^31
IntBits(n) == StripZeros([i \in 1..31 |-> (n \div 2^(31 - i)) % 2])

\* Carry into position i of a + b: a lower position generates a carry and
\* every position between propagates it.
Carry(a, b, i) ==
  IF \E j \in (i + 1)..Len(a) :
       /\ a[j] + b[j] = 2
       /\ \A k \in (i + 1)..(j - 1) : a[k] + b[k] = 1
  THEN 1 ELSE 0

\* exact sum of two binary numbers
AddBits(x, y) ==
  LET n == 1 + (IF Len(x) > Len(y) THEN Len(x) ELSE Len(y))
      a == Zeros(n - Len(x)) \o x
      b == Zeros(n - Len(y)) \o y
  IN [i \in 1..n |-> (a[i] + b[i] + Carry(a, b, i)) % 2]

\* exact product of two binary numbers, by shift and add
RECURSIVE MulLoop(_, _, _, _)
MulLoop(a, b, i, acc) ==
  IF i > Len(a) THEN acc
  ELSE MulLoop(a, b, i + 1,
               IF a[i] = 1 THEN AddBits(Append(acc, 0), b) ELSE Append(acc, 0))

MulBits(a, b) == MulLoop(a, b, 1, <<>>)

\* 2^k mod m
RECURSIVE PowMod(_, _)
PowMod(k, m) ==
  IF k = 0 THEN 1 % m
  ELSE LET h == PowMod(k \div 2, m)
       IN IF k % 2 = 0 THEN (h * h) % m ELSE (2 * h * h) % m

\* floor(n * 2^k / d) in binary, k + 31 digits
QuotientBits(n, d, k) ==
  [i \in 1..(k + 31) |->
     LET p == k + 31 - i
     IN IF p >= k THEN ((n \div d) \div 2^(p - k)) % 2
        ELSE ((((n % d) * PowMod(k - p, 2 * d)) % (2 * d)) \div d) % 2]

\* x < y for binary numbers
LessBits(x, y) ==
  LET n == IF Len(x) > Len(y) THEN Len(x) ELSE Len(y)
      a == Zeros(n - Len(x)) \o x
      b == Zeros(n - Len(y)) \o y
  IN \E i \in 1..n : a[i] < b[i] /\ \A k \in 1..(i - 1) : a[k] = b[k]

NaN == [nan |-> TRUE, m |-> <<>>, e |-> 0]
Zero == [nan |-> FALSE, m |-> <<>>, e |-> 0]

\* The double nearest to bits * 2^e (plus a non-zero fraction of the last
\* digit when sticky), ties to even.
RoundToDouble(bits, e, sticky) ==
  LET b == StripZeros(bits)
      n == Len(b)
  IN IF n = 0 THEN Zero
     ELSE IF n <= 53
     THEN [nan |-> FALSE, m |-> b \o Zeros(53 - n), e |-> e - (53 - n)]
     ELSE LET top == SubSeq(b, 1, 53)
              rest == sticky \/ \E i \in 55..n : b[i] = 1
              up == b[54] = 1 /\ (rest \/ top[53] = 1)
              inc == StripZeros(AddBits(top, <<1>>))
          IN IF ~up THEN [nan |-> FALSE, m |-> top, e |-> e + n - 53]
             ELSE IF Len(inc) = 54
             THEN [nan |-> FALSE, m |-> SubSeq(inc, 1, 53), e |-> e + n - 52]
             ELSE [nan |-> FALSE, m |-> inc, e |-> e + n - 53]

\* the number an integer 0 <= k < 2^31 is
ToNumber(k) == RoundToDouble(IntBits(k), 0, FALSE)

\* the value of a decimal literal equal to n / d (0.7 is Literal(7, 10))
Literal(n, d) ==
  RoundToDouble(QuotientBits(n, d, 64), -64, (n * PowMod(64, d)) % d # 0)

\* x * y
FMul(x, y) ==
  IF x.nan \/ y.nan THEN NaN
  ELSE IF x.m = <<>> \/ y.m = <<>> THEN Zero
  ELSE LET a == TrimRight(x.m)
       IN RoundToDouble(MulBits(a, y.m), x.e + (53 - Len(a)) + y.e, FALSE)

\* x + y
FAdd(x, y) ==
  IF x.nan \/ y.nan THEN NaN
  ELSE IF x.m = <<>> THEN y
  ELSE IF y.m = <<>> THEN x
  ELSE LET e == IF x.e < y.e THEN x.e ELSE y.e
       IN RoundToDouble(AddBits(x.m \o Zeros(x.e - e), y.m \o Zeros(y.e - e)),
                        e, FALSE)

\* exact difference x - y of two binary numbers, x >= y
SubBits(x, y) ==
  LET n == IF Len(x) > Len(y) THEN Len(x) ELSE Len(y)
      a == Zeros(n - Len(x)) \o x
      b == Zeros(n - Len(y)) \o y
      t == AddBits(AddBits(a, [i \in 1..n |-> 1 - b[i]]), <<1>>)
  IN SubSeq(t, Len(t) - n + 1, Len(t))

\* x - y for x >= y
FSub(x, y) ==
  IF x.nan \/ y.nan THEN NaN
  ELSE IF y.m = <<>> THEN x
  ELSE LET e == IF x.e < y.e THEN x.e ELSE y.e
       IN RoundToDouble(SubBits(x.m \o Zeros(x.e - e), y.m \o Zeros(y.e - e)),
                        e, FALSE)

\* x < y; false when either is NaN
FLess(x, y) ==
  IF x.nan \/ y.nan THEN FALSE
  ELSE IF y.m = <<>> THEN FALSE
  ELSE IF x.m = <<>> THEN TRUE
  ELSE LET e == IF x.e < y.e THEN x.e ELSE y.e
       IN LessBits(x.m \o Zeros(x.e - e), y.m \o Zeros(y.e - e))

\* ------------------------------------------------------------------------
\* getCombinedScore
\* ------------------------------------------------------------------------
\* Mutant: the two weights exchanged.
getCombinedScoreSwapped(skillMatchPct, calendarPct) ==
  FAdd(FMul(calendarPct, Literal(3, 10)), FMul(skillMatchPct, Literal(7, 10)))

\* Mutant: the skill term counts the missing match, (100 - skillMatchPct).
getCombinedScoreInverse(skillMatchPct, calendarPct) ==
  FAdd(FMul(calendarPct, Literal(7, 10)),
       FMul(FSub(ToNumber(MaxPct), skillMatchPct), Literal(3, 10)))

\* return calendarPct * 0.7 + skillMatchPct * 0.3;
getCombinedScore(skillMatchPct, calendarPct) ==
  FAdd(FMul(calendarPct, Literal(7, 10)), FMul(skillMatchPct, Literal(3, 10)))

\* ------------------------------------------------------------------------
\* State machine of the reconciliation
\* ------------------------------------------------------------------------
SyncInit ==
  /\ members = [m \in MemberIds |-> SeedMember]
  /\ now = 0
  /\ lastOp = "init"
  /\ lastEntries = <<>>
  /\ lastResult = NoResult
  /\ restored = {}
  /\ matched = [ref \in Refs |-> BestMemberMatch(ref, Roster, MemberName)]

MatchIdle ==
  /\ matchRef = <<>>
  /\ matchRoster = <<>>
  /\ matchResult = NoMember

\* getCombinedScore has not been called: score is <<>>, and <<x>> once it
\* has returned x
ScoreIdle ==
  /\ scoreSkill = 0
  /\ scoreCal = 0
  /\ score = <<>>

\* no task has been loaded or selected
RankIdle ==
  /\ mockSuggestions = <<>>
  /\ scoredIds = {}
  /\ membersLoaded = FALSE
  /\ rankPhase = "idle"
  /\ taskSuggestions = <<>>
  /\ sortedSuggestions = <<>>

\* ------------------------------------------------------------------------
\* Tasks: the server's task table, the panel's copy and its local overrides
\* ------------------------------------------------------------------------
\* Task ids the server knows, and the ids the panel may hold (a task the
\* server no longer has among them).
ServerTaskIds == {"task-001"}
ClientTaskIds == {"task-001", "task-404"}

\* TaskStatus
TaskStatuses == {"at-risk", "unassigned", "covered"}

\* assigneeId: null
NoAssignee == "null"
\* taskStatusOverrides[taskId] is undefined
NoStatus == "undefined"

\* Task (the fields the operations read or write)
Task(assignee, status) == [assigneeId |-> assignee, status |-> status]

\* no request in flight
NoRequest ==
  [op |-> "none", taskId |-> "none", memberId |-> "none", phase |-> "none",
   shownBefore |-> "none"]

\* the tasks as seeded and nothing done in the panel
TaskIdle ==
  /\ serverTasks = [t \in ServerTaskIds |-> Task("mem-1", "at-risk")]
  /\ clientTasks = [t \in ServerTaskIds |-> Task("mem-1", "at-risk")]
  /\ taskStatusOverrides = [t \in ClientTaskIds |-> NoStatus]
  /\ pipelineRunning = [t \in ClientTaskIds |-> FALSE]
  /\ request = NoRequest
  /\ taskOp = "init"
  /\ toast = "none"
  /\ scoredLength = [t \in ServerTaskIds |-> 0]
  /\ taskSuggestionsLength = [t \in ClientTaskIds |-> 0]

\* ------------------------------------------------------------------------
\* Sync requests: one per open page
\* ------------------------------------------------------------------------
\* pages with a SlackSyncSection, each with its own useSlackSync state
Pages == {"page-1", "page-2"}

\* no request of the page is running (loading is false)
NoSync == [phase |-> "idle", entries |-> <<>>, scanned |-> 0, sweptAt |-> 0]

RequestsIdle == syncs = [p \in Pages |-> NoSync]

\* ------------------------------------------------------------------------
\* The apply pass as a transaction, the pings, the sign-in page: at rest
\* ------------------------------------------------------------------------
\* no apply pass is open, no reader has read the member table
PassIdle == pass = <<>> /\ seen = <<>>

\* `${task.id}:${member.id}`
PingKeys ==
  {<<"task-001", "mem-1">>, <<"task-001", "mem-2">>, <<"task-404", "mem-1">>}

\* per pair: the requests sent so far, those not settled yet, the last toast
PingIdle ==
  /\ pingSent = [k \in PingKeys |-> FALSE]
  /\ pingRequests =
       [k \in PingKeys |-> [issued |-> 0, inFlight |-> 0, toast |-> "none"]]

\* useState initial values of SignInPage, Clerk not loaded yet, no handler
\* waiting for Clerk; handler and status: the handler that last got an answer
\* from signIn.create or signIn.attemptSecondFactor, and result.status
SignInIdle ==
  /\ signInPage = [isLoaded |-> FALSE, step |-> "credentials", loading |-> FALSE,
                   error |-> "", otp |-> "", showPassword |-> FALSE,
                   sessionActive |-> FALSE,
                   path |-> "/sign-in", handler |-> "none", status |-> "none"]
  /\ attempts = <<>>

\* the sync requests, the apply pass, the pings and the sign-in page at rest
RestIdle == RequestsIdle /\ PassIdle /\ PingIdle /\ SignInIdle

ExtIdle == ScoreIdle /\ RankIdle /\ TaskIdle /\ RestIdle

Init == SyncInit /\ MatchIdle /\ ExtIdle

\* Wall-clock time passes.
Tick ==
  /\ now < MaxTime
  /\ now' = now + 1
  /\ lastOp' = "tick"
  /\ lastEntries' = <<>>
  /\ lastResult' = NoResult
  /\ restored' = {}
  /\ UNCHANGED <<members, matched, matchVars, extVars>>

\* The expiry sweep on its own (server start-up).
RestoreExpired ==
  LET r == RestoreExpiredSlackOoo(members, now)
  IN /\ members' = r.mem
     /\ restored' = r.ids
     /\ lastOp' = "restore"
     /\ lastEntries' = <<>>
     /\ lastResult' = NoResult
     /\ UNCHANGED <<now, matched, matchVars, extVars>>

\* POST /timeoff/sync: the sweep, then fetch_and_parse, then the apply pass.
SyncNow ==
  \E entries \in EntryLists, noise \in {0, 1} :
    /\ LET r == RestoreExpiredSlackOoo(members, now)
           a == ApplyTimeoffEntries(r.mem, entries, Len(entries) + noise, now)
       IN /\ members' = a.mem
          /\ restored' = r.ids
          /\ lastResult' = a.result
    /\ lastEntries' = entries
    /\ lastOp' = "sync"
    /\ UNCHANGED <<now, matched, matchVars, extVars>>

\* PATCH /api/members/{memberId}/override
SetOverride ==
  \E m \in MemberIds, status \in Statuses :
    /\ members' = [members EXCEPT ![m] = Override(@, status)]
    /\ lastOp' = "setOverride"
    /\ lastEntries' = <<>>
    /\ lastResult' = NoResult
    /\ restored' = {}
    /\ UNCHANGED <<now, matched, matchVars, extVars>>

\* DELETE /api/members/{memberId}/override
ClearOverride ==
  \E m \in MemberIds :
    /\ members' = [members EXCEPT ![m] = Unoverride(@)]
    /\ lastOp' = "clearOverride"
    /\ lastEntries' = <<>>
    /\ lastResult' = NoResult
    /\ restored' = {}
    /\ UNCHANGED <<now, matched, matchVars, extVars>>

Next ==
  \/ Tick
  \/ RestoreExpired
  \/ SyncNow
  \/ SetOverride
  \/ ClearOverride

Spec == Init /\ [][Next]_vars

\* The same machine when the sweep keeps being triggered (server start-up,
\* every sync, a timer): a sweep that has something to restore is not put off
\* for ever.
SweepSpec == Init /\ [][Next]_vars /\ WF_vars(RestoreExpired)

\* ------------------------------------------------------------------------
\* The matcher on its own: _best_member_match on a reference and a roster
\* ------------------------------------------------------------------------
RefZzz == <<"z","z","z">>
RefSurnameCut == <<"m","a","y","a"," ","p","a","t">>
RefJordanOnly == <<"j","o","r","d","a","n">>
RefShouted == <<"@","@","J","O","R","D","A","N",".","L","E","E"," ">>

MatchRefs ==
  {RefJordan, RefMaya, RefFirstName, RefZzz, RefSurnameCut, RefJordanOnly,
   RefShouted, <<>>}

IsInjective(q) == \A i, j \in 1..Len(q) : q[i] = q[j] => i = j

\* Rosters: up to MaxRoster different members, in any order.
MatchRosters == {q \in SeqsUpTo(PoolIds, MaxRoster) : IsInjective(q)}


MatchInit ==
  /\ SyncInit
  /\ ExtIdle
  /\ matchRef \in MatchRefs
  /\ matchRoster \in MatchRosters
  /\ matchResult = Pending

MatchRun ==
  /\ matchResult = Pending
  /\ matchResult' = BestMemberMatch(matchRef, matchRoster, MemberName)
  /\ UNCHANGED <<matchRef, matchRoster, syncVars, extVars>>

MatchNext == MatchRun

MatchSpec == MatchInit /\ [][MatchNext]_vars

\* ------------------------------------------------------------------------
\* The score on its own: getCombinedScore on every pair of percentages
\* ------------------------------------------------------------------------
ScoreInit ==
  /\ SyncInit
  /\ MatchIdle
  /\ RestIdle
  /\ RankIdle
  /\ TaskIdle
  /\ scoreSkill = 0
  /\ scoreCal = 0
  /\ score = <<>>

\* The score of the pair at hand.
ScoreRun ==
  /\ score = <<>>
  /\ score' = <<getCombinedScore(ToNumber(scoreSkill), ToNumber(scoreCal))>>
  /\ UNCHANGED <<scoreSkill, scoreCal, scoreOthers>>

\* The score of the same candidate with one point more of skill match.
MoreSkill ==
  /\ score # <<>>
  /\ scoreSkill < MaxPct
  /\ scoreSkill' = scoreSkill + 1
  /\ score' = <<getCombinedScore(ToNumber(scoreSkill'), ToNumber(scoreCal))>>
  /\ UNCHANGED <<scoreCal, scoreOthers>>

\* The score of the same candidate with one point more of free calendar.
MoreCalendar ==
  /\ score # <<>>
  /\ scoreCal < MaxPct
  /\ scoreCal' = scoreCal + 1
  /\ score' = <<getCombinedScore(ToNumber(scoreSkill), ToNumber(scoreCal'))>>
  /\ UNCHANGED <<scoreSkill, scoreOthers>>

ScoreNext == ScoreRun \/ MoreSkill \/ MoreCalendar

ScoreSpec == ScoreInit /\ [][ScoreNext]_vars

\* ------------------------------------------------------------------------
\* Ranking of a task's suggestions: load_tasks on the server, then
\* sortedSuggestions in the panel
\* ------------------------------------------------------------------------
\* dataSources.calendarPct of the roster
CalendarPct ==
  [m \in PoolIds |-> CASE m = "mem-1" -> 71 [] m = "mem-2" -> 3 [] OTHER -> 0]

\* skillMatchPct of the mock data
MockSkills == {0, 7, 90}

\* skill_scores.json: the scored entry of a member for the task
ScoredSkill ==
  [m \in PoolIds |-> CASE m = "mem-1" -> 7 [] m = "mem-2" -> 90 [] OTHER -> 0]

\* Suggestion (the fields the ranking reads or load_tasks writes)
Suggestion(m, skill, why) ==
  [memberId |-> m, skillMatchPct |-> skill, contextReason |-> why]

\* Suggestion lists of the mock data: no member twice.
MockLists ==
  {q \in SeqsUpTo({Suggestion(m, k, "mock") : m \in PoolIds, k \in MockSkills},
                  MaxSuggestions) :
     \A i, j \in 1..Len(q) : q[i].memberId = q[j].memberId => i = j}

\* Mutant: a pair that is not scored gets skillMatchPct 0.
LoadTasksZero(suggestions, scored) ==
  [i \in 1..Len(suggestions) |->
     IF suggestions[i].memberId \in scored
     THEN Suggestion(suggestions[i].memberId,
                     ScoredSkill[suggestions[i].memberId], "ai")
     ELSE Suggestion(suggestions[i].memberId, 0, "mock")]

\* load_tasks: a scored entry replaces skillMatchPct and contextReason; a
\* pair that is not scored keeps the values of the mock data.
LoadTasks(suggestions, scored) ==
  [i \in 1..Len(suggestions) |->
     IF suggestions[i].memberId \in scored
     THEN Suggestion(suggestions[i].memberId,
                     ScoredSkill[suggestions[i].memberId], "ai")
     ELSE suggestions[i]]

\* member?.dataSources.calendarPct ?? 0
CalPctOf(m, loaded) == IF loaded THEN CalendarPct[m] ELSE 0

\* .map((s) => ({ ...s, _combined: getCombinedScore(s.skillMatchPct, calPct) }))
WithCombined(suggestions, loaded) ==
  [i \in 1..Len(suggestions) |->
     [memberId |-> suggestions[i].memberId,
      skillMatchPct |-> suggestions[i].skillMatchPct,
      contextReason |-> suggestions[i].contextReason,
      combined |-> getCombinedScore(
                     ToNumber(suggestions[i].skillMatchPct),
                     ToNumber(CalPctOf(suggestions[i].memberId, loaded)))]]

\* (a, b) => b._combined - a._combined: positive when a belongs after b, 0
\* when the difference is 0 or NaN
Comparator(a, b) ==
  IF FLess(a.combined, b.combined) THEN 1
  ELSE IF FLess(b.combined, a.combined) THEN -1
  ELSE 0

\* Mutant: an element goes before the elements it compares equal to.
InsertBeforeEqual(q, x) ==
  LET before == {i \in 1..Len(q) : Comparator(q[i], x) < 0}
      k == IF before = {} THEN 0 ELSE SetMax(before)
  IN SubSeq(q, 1, k) \o <<x>> \o SubSeq(q, k + 1, Len(q))

\* Array.prototype.sort is stable: an element goes after every element that
\* does not belong after it.
InsertSorted(q, x) ==
  LET before == {i \in 1..Len(q) : Comparator(q[i], x) <= 0}
      k == IF before = {} THEN 0 ELSE SetMax(before)
  IN SubSeq(q, 1, k) \o <<x>> \o SubSeq(q, k + 1, Len(q))

RECURSIVE SortLoop(_, _)
SortLoop(done, rest) ==
  IF rest = <<>> THEN done
  ELSE SortLoop(InsertSorted(done, Head(rest)), Tail(rest))

\* [...task.suggestions].map(...).sort(...)
SortedSuggestions(suggestions, loaded) ==
  SortLoop(<<>>, WithCombined(suggestions, loaded))

\* (members ?? []): the roster once it is fetched; mem-3 is not part of it
ListedMembers(loaded) == IF loaded THEN MemberIds ELSE {}

\* sortedSuggestions.map((s, i) => ...): the positions that render a row (the
\* others return null because the member is not found); row i shows rank + 1,
\* with rank = i counted from 0
RowRanks(sorted, loaded) ==
  LET rows == {i \in 1..Len(sorted) : sorted[i].memberId \in ListedMembers(loaded)}
  IN [j \in 1..Cardinality(rows) |->
        CHOOSE i \in rows : Cardinality({x \in rows : x <= i}) = j]

RankInit ==
  /\ SyncInit
  /\ MatchIdle
  /\ RestIdle
  /\ ScoreIdle
  /\ TaskIdle
  /\ mockSuggestions \in MockLists
  /\ scoredIds \in SUBSET PoolIds
  /\ membersLoaded \in BOOLEAN
  /\ rankPhase = "mock"
  /\ taskSuggestions = <<>>
  /\ sortedSuggestions = <<>>

\* GET /api/tasks: the server answers with load_tasks()
GetTasks ==
  /\ rankPhase = "mock"
  /\ taskSuggestions' = LoadTasks(mockSuggestions, scoredIds)
  /\ rankPhase' = "loaded"
  /\ UNCHANGED <<mockSuggestions, scoredIds, membersLoaded, sortedSuggestions,
                 rankOthers>>

\* The panel renders the selected task.
RenderPanel ==
  /\ rankPhase = "loaded"
  /\ sortedSuggestions' = SortedSuggestions(taskSuggestions, membersLoaded)
  /\ rankPhase' = "ranked"
  /\ UNCHANGED <<mockSuggestions, scoredIds, membersLoaded, taskSuggestions,
                 rankOthers>>

RankNext == GetTasks \/ RenderPanel

RankSpec == RankInit /\ [][RankNext]_vars

\* Mutant: the panel shows the fetched status and ignores the local override.
ShownStatusFetched(t) ==
  IF t \notin DOMAIN clientTasks THEN "loading" ELSE clientTasks[t].status

\* ------------------------------------------------------------------------
\* State machine of the tasks: reassign, unassign and status changes
\* ------------------------------------------------------------------------
\* const currentStatus = taskStatusOverrides[selectedTaskId] ?? task.status,
\* and the spinner while the task is not in the list
ShownStatus(t) ==
  IF t \notin DOMAIN clientTasks THEN "loading"
  ELSE IF taskStatusOverrides[t] # NoStatus THEN taskStatusOverrides[t]
  ELSE clientTasks[t].status

\* members a task can be handed to
AssigneeIds == {"mem-1", "mem-2"}

TaskInit ==
  /\ SyncInit
  /\ MatchIdle
  /\ RestIdle
  /\ ScoreIdle
  /\ RankIdle
  /\ serverTasks \in [ServerTaskIds ->
                        {Task("mem-1", "at-risk"), Task(NoAssignee, "unassigned")}]
  /\ clientTasks =
       [t \in ClientTaskIds |->
          IF t \in ServerTaskIds THEN serverTasks[t] ELSE Task("mem-2", "at-risk")]
  /\ taskStatusOverrides = [t \in ClientTaskIds |-> NoStatus]
  /\ pipelineRunning = [t \in ClientTaskIds |-> FALSE]
  /\ request = NoRequest
  /\ taskOp = "init"
  /\ toast = "none"
  /\ scoredLength \in [ServerTaskIds -> 0..MaxSuggestions]
  /\ taskSuggestionsLength =
       [t \in ClientTaskIds |-> IF t \in ServerTaskIds THEN scoredLength[t] ELSE 1]

\* Mutant: the suggestion rows stay on screen while the pipeline runs.
RowsShownWhileRunning(t) ==
  /\ t \in DOMAIN clientTasks
  /\ ShownStatus(t) # "covered"
  /\ taskSuggestionsLength[t] > 0

\* {!isCovered && !isRunning && ( sortedSuggestions.length > 0 ? rows : ... )}
RowsShown(t) ==
  /\ t \in DOMAIN clientTasks
  /\ ShownStatus(t) # "covered"
  /\ ~pipelineRunning[t]
  /\ taskSuggestionsLength[t] > 0

\* handleReassign up to its await (the Reassign button of a row):
\* setTaskStatus(taskId, 'covered'), then the request is sent
HandleReassign ==
  \E t \in DOMAIN clientTasks, m \in AssigneeIds :
    /\ request = NoRequest
    /\ RowsShown(t)
    /\ taskStatusOverrides' = [taskStatusOverrides EXCEPT ![t] = "covered"]
    /\ request' = [op |-> "reassign", taskId |-> t, memberId |-> m,
                   phase |-> "sent", shownBefore |-> ShownStatus(t)]
    /\ taskOp' = "handleReassign"
    /\ toast' = "success"
    /\ UNCHANGED <<serverTasks, clientTasks, pipelineRunning, scoredLength,
                   taskSuggestionsLength, taskOthers>>

\* handleUnassign up to its await (the button shows when the task has an
\* assignee): setTaskStatus(task.id, 'unassigned'), setPipelineRunning
HandleUnassign ==
  \E t \in DOMAIN clientTasks :
    /\ request = NoRequest
    /\ clientTasks[t].assigneeId # NoAssignee
    /\ taskStatusOverrides' = [taskStatusOverrides EXCEPT ![t] = "unassigned"]
    /\ pipelineRunning' = [pipelineRunning EXCEPT ![t] = TRUE]
    /\ request' = [op |-> "unassign", taskId |-> t, memberId |-> NoAssignee,
                   phase |-> "sent", shownBefore |-> ShownStatus(t)]
    /\ taskOp' = "handleUnassign"
    /\ UNCHANGED <<serverTasks, clientTasks, toast, scoredLength,
                   taskSuggestionsLength, taskOthers>>

\* Mutant: the server marks a reassigned task at-risk.
ReassignAtRisk(task, m) == Task(m, "at-risk")

\* Reassign(taskId, memberId) on the server
Reassign(task, m) == Task(m, "covered")

\* Mutant: the server puts an unassigned task back at risk.
UnassignAtRisk(task) == Task(NoAssignee, "at-risk")

\* Unassign(taskId) on the server
Unassign(task) == Task(NoAssignee, "unassigned")

\* The server answers the request in flight: 404 for an id it does not know.
\* An unassign marks the task as needing re-scoring; whether the suggestions
\* it had are dropped until then or kept is left open.
ServerAnswer ==
  /\ request.phase = "sent"
  /\ IF request.taskId \notin ServerTaskIds
     THEN /\ request' = [request EXCEPT !.phase = "error"]
          /\ UNCHANGED <<serverTasks, scoredLength>>
     ELSE /\ request' = [request EXCEPT !.phase = "ok"]
          /\ serverTasks' =
               [serverTasks EXCEPT ![request.taskId] =
                  IF request.op = "reassign"
                  THEN Reassign(@, request.memberId)
                  ELSE Unassign(@)]
          /\ \E n \in {0, scoredLength[request.taskId]} :
               scoredLength' =
                 [scoredLength EXCEPT ![request.taskId] =
                    IF request.op = "unassign" THEN n ELSE @]
  /\ taskOp' = request.op
  /\ UNCHANGED <<clientTasks, taskStatusOverrides, pipelineRunning, toast,
                 taskSuggestionsLength, taskOthers>>

\* The skill pipeline, running in the background after an unassign, has
\* scored the candidates of a task.
PipelineScores ==
  \E t \in ServerTaskIds, n \in 1..MaxSuggestions :
    /\ serverTasks[t].status = "unassigned"
    /\ scoredLength' = [scoredLength EXCEPT ![t] = n]
    /\ taskOp' = "pipelineScores"
    /\ UNCHANGED <<serverTasks, clientTasks, taskStatusOverrides, pipelineRunning,
                   request, toast, taskSuggestionsLength, taskOthers>>

\* GET /api/tasks: the list the server answers with
FetchedTasks == [t \in ServerTaskIds |-> serverTasks[t]]

\* task?.suggestions.length ?? 0 once the list is fetched
FetchedLength ==
  [t \in ClientTaskIds |-> IF t \in ServerTaskIds THEN scoredLength[t] ELSE 0]

\* The effect "auto-clear pipelineRunning when suggestions arrive", with
\* dependencies [selectedTaskId, taskSuggestionsLength]: it runs after a
\* render in which the length has changed, and clears the flag when the
\* length is not 0.
AutoClear(running, before, after) ==
  [t \in ClientTaskIds |->
     IF after[t] # before[t] /\ after[t] # 0 THEN FALSE ELSE running[t]]

\* refetchTasks() and the render that follows; running: the flags as the
\* handler has left them
Refetched(running) ==
  /\ clientTasks' = FetchedTasks
  /\ taskSuggestionsLength' = FetchedLength
  /\ pipelineRunning' = AutoClear(running, taskSuggestionsLength, FetchedLength)

\* handleReassign after its await: refetchTasks(), or the error toast
ReassignDone ==
  /\ request.op = "reassign"
  /\ request.phase \in {"ok", "error"}
  /\ IF request.phase = "ok"
     THEN Refetched(pipelineRunning) /\ UNCHANGED toast
     ELSE /\ toast' = "error"
          /\ UNCHANGED <<clientTasks, taskSuggestionsLength, pipelineRunning>>
  /\ request' = NoRequest
  /\ taskOp' = "reassignDone"
  /\ UNCHANGED <<serverTasks, taskStatusOverrides, scoredLength, taskOthers>>

\* handleUnassign after its await: the info toast, or the error toast and
\* setPipelineRunning(task.id, false)
UnassignDone ==
  /\ request.op = "unassign"
  /\ request.phase \in {"ok", "error"}
  /\ IF request.phase = "ok"
     THEN toast' = "info" /\ UNCHANGED pipelineRunning
     ELSE /\ toast' = "error"
          /\ pipelineRunning' = [pipelineRunning EXCEPT ![request.taskId] = FALSE]
  /\ request' = NoRequest
  /\ taskOp' = "unassignDone"
  /\ UNCHANGED <<serverTasks, clientTasks, taskStatusOverrides, scoredLength,
                 taskSuggestionsLength, taskOthers>>

\* PATCH /api/tasks/{taskId}/status: 404 for an unknown id, else the status
\* is stored (any of the three)
PatchTaskStatus ==
  \E t \in ClientTaskIds, status \in TaskStatuses :
    /\ request = NoRequest
    /\ IF t \in ServerTaskIds
       THEN /\ serverTasks' = [serverTasks EXCEPT ![t].status = status]
            /\ taskOp' = "patchStatus"
       ELSE /\ UNCHANGED serverTasks
            /\ taskOp' = "patchStatus404"
    /\ UNCHANGED <<clientTasks, taskStatusOverrides, pipelineRunning, request,
                   toast, scoredLength, taskSuggestionsLength, taskOthers>>

\* handleRefreshSuggestions (the Refresh button of the banner, shown while
\* the flag is set): setPipelineRunning(task.id, false); refetchTasks()
HandleRefreshSuggestions ==
  \E t \in DOMAIN clientTasks :
    /\ request = NoRequest
    /\ pipelineRunning[t]
    /\ Refetched([pipelineRunning EXCEPT ![t] = FALSE])
    /\ taskOp' = "refresh"
    /\ UNCHANGED <<serverTasks, taskStatusOverrides, request, toast, scoredLength,
                   taskOthers>>

\* The effect "auto-poll every 4s while the pipeline is running for this
\* task": refetchTasks()
AutoPoll ==
  /\ \E t \in ClientTaskIds : pipelineRunning[t]
  /\ Refetched(pipelineRunning)
  /\ taskOp' = "poll"
  /\ UNCHANGED <<serverTasks, taskStatusOverrides, request, toast, scoredLength,
                 taskOthers>>

TaskNext ==
  \/ HandleReassign
  \/ HandleUnassign
  \/ ServerAnswer
  \/ PipelineScores
  \/ ReassignDone
  \/ UnassignDone
  \/ PatchTaskStatus
  \/ HandleRefreshSuggestions
  \/ AutoPoll

TaskSpec == TaskInit /\ [][TaskNext]_vars

\* The same machine with what happens without the user: the server answers,
\* the handlers finish, the pipeline scores, the poll fires.
TaskAloneSpec ==
  /\ TaskSpec
  /\ WF_vars(ServerAnswer)
  /\ WF_vars(PipelineScores)
  /\ WF_vars(ReassignDone)
  /\ WF_vars(UnassignDone)
  /\ WF_vars(AutoPoll)

\* ------------------------------------------------------------------------
\* State machine of concurrent sync requests: POST /timeoff/sync step by step
\* ------------------------------------------------------------------------
\* the button is disabled while the page's request is loading
loading(p) == syncs[p].phase # "idle"

\* handleSync, and the first step of the route: restore_expired_slack_ooo(db)
SyncRestore ==
  \E p \in Pages :
    /\ ~loading(p)
    /\ LET r == RestoreExpiredSlackOoo(members, now)
       IN /\ members' = r.mem
          /\ restored' = r.ids
    /\ syncs' = [syncs EXCEPT ![p].phase = "restored", ![p].sweptAt = now]
    /\ lastOp' = "syncRestore"
    /\ lastEntries' = <<>>
    /\ lastResult' = NoResult
    /\ UNCHANGED <<now, matched, requestOthers>>

\* the second step: fetch_and_parse(slack_client, channel_id, hours, limit)
SyncFetch ==
  \E p \in Pages, entries \in EntryLists, noise \in {0, 1} :
    /\ syncs[p].phase = "restored"
    /\ syncs' = [syncs EXCEPT ![p].phase = "fetched", ![p].entries = entries,
                              ![p].scanned = Len(entries) + noise]
    /\ lastOp' = "syncFetch"
    /\ lastEntries' = <<>>
    /\ lastResult' = NoResult
    /\ UNCHANGED <<members, now, restored, matched, requestOthers>>

\* the third step: apply_timeoff_entries(db, entries), and the response
SyncApply ==
  \E p \in Pages :
    /\ syncs[p].phase = "fetched"
    /\ LET a == ApplyTimeoffEntries(members, syncs[p].entries,
                                    syncs[p].scanned, now)
       IN /\ members' = a.mem
          /\ lastResult' = a.result
    /\ lastEntries' = syncs[p].entries
    /\ syncs' = [syncs EXCEPT ![p] = NoSync]
    /\ lastOp' = "syncApply"
    /\ UNCHANGED <<now, restored, matched, requestOthers>>

RequestsInit == Init

RequestsNext ==
  \/ Tick
  \/ SyncRestore
  \/ SyncFetch
  \/ SyncApply

RequestsSpec == RequestsInit /\ [][RequestsNext]_vars

\* ------------------------------------------------------------------------
\* State machine of one apply pass, entry by entry, with readers
\* ------------------------------------------------------------------------
\* Mutant: a reader sees the rows the open transaction has written.
VisibleUncommitted(committed, working) == working

\* what GET /api/members reads while a transaction is open: the committed rows
Visible(committed, working) == committed

PassLists == SeqsUpTo(Entries, MaxPassEntries)

\* apply_timeoff_entries(db, entries) is called: nothing is written yet
BeginPass ==
  \E entries \in PassLists :
    /\ pass = <<>>
    /\ pass' = <<[before |-> members, today |-> now, entries |-> entries,
                  rest |-> entries,
                  acc |-> [mem |-> members, applied |-> 0, pending |-> 0,
                           skipped |-> 0, changes |-> <<>>]]>>
    /\ lastOp' = "beginPass"
    /\ lastEntries' = <<>>
    /\ lastResult' = NoResult
    /\ restored' = {}
    /\ UNCHANGED <<members, now, matched, seen, passOthers>>

\* 1. For each TimeOffEntry: one turn of the loop, written to the session
PassEntry ==
  /\ pass # <<>>
  /\ pass[1].rest # <<>>
  /\ pass' = <<[pass[1] EXCEPT
                  !.acc = ApplyEntry(@, Head(pass[1].rest), pass[1].today),
                  !.rest = Tail(@)]>>
  /\ lastOp' = "passEntry"
  /\ UNCHANGED <<members, now, lastEntries, lastResult, restored, matched, seen,
                 passOthers>>

\* 2. Commit all changes in one transaction.  3. Return TimeOffSyncResult.
PassCommit ==
  /\ pass # <<>>
  /\ pass[1].rest = <<>>
  /\ members' = pass[1].acc.mem
  /\ lastEntries' = pass[1].entries
  /\ lastResult' =
       [scanned |-> Len(pass[1].entries), detected |-> Detected(pass[1].entries),
        applied |-> pass[1].acc.applied, pending |-> pass[1].acc.pending,
        skipped |-> pass[1].acc.skipped, changes |-> pass[1].acc.changes]
  /\ pass' = <<>>
  /\ lastOp' = "passCommit"
  /\ UNCHANGED <<now, restored, matched, seen, passOthers>>

\* The pass fails before its commit: the session is discarded.
PassFails ==
  /\ pass # <<>>
  /\ pass' = <<>>
  /\ lastOp' = "passFails"
  /\ UNCHANGED <<members, now, lastEntries, lastResult, restored, matched, seen,
                 passOthers>>

\* GET /api/members by another request
GetMembers ==
  /\ seen' = <<Visible(members, IF pass = <<>> THEN members ELSE pass[1].acc.mem)>>
  /\ lastOp' = "getMembers"
  /\ UNCHANGED <<members, now, lastEntries, lastResult, restored, matched, pass,
                 passOthers>>

PassInit == Init

PassNext ==
  \/ Tick
  \/ BeginPass
  \/ PassEntry
  \/ PassCommit
  \/ PassFails
  \/ GetMembers

PassSpec == PassInit /\ [][PassNext]_vars

Overdue(m) ==
  /\ ~members[m].manuallyOverridden
  /\ members[m].isOOO
  /\ members[m].slackOooUntil # Null
  /\ members[m].slackOooUntil < now

\* C23: a member out of office by Slack, without manual override, whose
\* slackOooUntil has passed is eventually restored to available with no user
\* action, provided the sweep keeps being triggered; no sweep or sync pass
\* leaves such a member behind, so the member is out of date for at most the
\* time to the next sweep.
EventuallyRestored ==
  /\ \A m \in MemberIds : Overdue(m) ~> ~Overdue(m)
  /\ [][\A m \in MemberIds :
          (Overdue(m) /\ lastOp' = "restore")
          => /\ members'[m].leaveStatus = "available"
             /\ ~members'[m].isOOO
             /\ members'[m].slackOooUntil = Null]_vars

\* on day 2 a sweep has restored mem-1, out of office by Slack until day 1
EventuallyRestoredWitness ==
  /\ lastOp = "restore"
  /\ now = 2
  /\ restored = {"mem-1"}
  /\ ~members["mem-1"].manuallyOverridden
  /\ members["mem-1"].leaveStatus = "available"
  /\ members["mem-1"].slackOooStart = 0
  /\ members["mem-1"].slackOooUntil = Null

\* ------------------------------------------------------------------------
\* State machine of the availability pings of the suggestion rows
\* ------------------------------------------------------------------------
\* handleAskFirst up to its await (the button is disabled={hasPingSent}):
\* sendAvailabilityPing is called
HandleAskFirst ==
  \E k \in PingKeys :
    /\ ~pingSent[k]
    /\ pingRequests[k].issued < MaxPings
    /\ pingRequests' = [pingRequests EXCEPT ![k].issued = @ + 1,
                                            ![k].inFlight = @ + 1]
    /\ UNCHANGED <<pingSent, pingOthers>>

\* handleAskFirst after its await: setPingSent and toast.info, or in the
\* catch branch setPingSent and toast.warning
PingSettles ==
  \E k \in PingKeys, shown \in {"info", "warning"} :
    /\ pingRequests[k].inFlight > 0
    /\ pingRequests' = [pingRequests EXCEPT ![k].inFlight = @ - 1,
                                            ![k].toast = shown]
    /\ pingSent' = [pingSent EXCEPT ![k] = TRUE]
    /\ UNCHANGED pingOthers

PingInit == Init

PingNext ==
  \/ HandleAskFirst
  \/ PingSettles

PingSpec == PingInit /\ [][PingNext]_vars

\* ------------------------------------------------------------------------
\* State machine of the sign-in page
\* ------------------------------------------------------------------------
\* Mutant: the handlers do not look at loading.
CanSubmitWhileLoading(page) == page.isLoaded

\* if (!isLoaded || loading) return;
CanSubmit(page) == page.isLoaded /\ ~page.loading

\* q without its i-th element
Without(q, i) == SubSeq(q, 1, i - 1) \o SubSeq(q, i + 1, Len(q))

\* useSignIn() has loaded
ClerkLoads ==
  /\ ~signInPage.isLoaded
  /\ signInPage' = [signInPage EXCEPT !.isLoaded = TRUE]
  /\ UNCHANGED <<attempts, signInOthers>>

\* the eye button of the password field
ToggleShowPassword ==
  /\ signInPage.path = "/sign-in"
  /\ signInPage.step = "credentials"
  /\ signInPage' = [signInPage EXCEPT !.showPassword = ~signInPage.showPassword]
  /\ UNCHANGED <<attempts, signInOthers>>

\* the code field: setOtp(digits, at most 6)
TypeOtp ==
  \E code \in {"", "123456"} :
    /\ signInPage.path = "/sign-in"
    /\ signInPage.step = "otp"
    /\ signInPage' = [signInPage EXCEPT !.otp = code]
    /\ UNCHANGED <<attempts, signInOthers>>

\* handleCredentials up to await signIn.create
HandleCredentials ==
  /\ signInPage.path = "/sign-in"
  /\ signInPage.step = "credentials"
  /\ CanSubmit(signInPage)
  /\ Len(attempts) < MaxAttempts
  /\ signInPage' = [signInPage EXCEPT !.loading = TRUE, !.error = ""]
  /\ attempts' = Append(attempts, [handler |-> "credentials", awaiting |-> "create"])
  /\ UNCHANGED signInOthers

\* handleOtp up to await signIn.attemptSecondFactor (the button is disabled
\* while otp.length < 6)
HandleOtp ==
  /\ signInPage.path = "/sign-in"
  /\ signInPage.step = "otp"
  /\ signInPage.otp # ""
  /\ CanSubmit(signInPage)
  /\ Len(attempts) < MaxAttempts
  /\ signInPage' = [signInPage EXCEPT !.loading = TRUE, !.error = ""]
  /\ attempts' = Append(attempts, [handler |-> "otp",
                                   awaiting |-> "attemptSecondFactor"])
  /\ UNCHANGED signInOthers

\* the handler of attempt i runs to its end: catch or else branch, finally
Finish(i, page) ==
  /\ signInPage' = [page EXCEPT !.loading = FALSE]
  /\ attempts' = Without(attempts, i)

\* signIn.create or signIn.attemptSecondFactor settles for attempt i
ClerkAnswers ==
  \E i \in 1..Len(attempts),
     status \in {"complete", "needs_second_factor", "needs_first_factor", "threw"},
     emailCodeFactor \in BOOLEAN :
    LET a == attempts[i]
        page == [signInPage EXCEPT !.handler = a.handler, !.status = status]
    IN /\ a.awaiting \in {"create", "attemptSecondFactor"}
       /\ CASE status = "threw" ->
                 Finish(i, [page EXCEPT !.error = "clerk"])
            [] status = "complete" ->
                 /\ attempts' = [attempts EXCEPT ![i].awaiting = "setActive"]
                 /\ signInPage' = page
            [] status = "needs_second_factor" /\ a.handler = "credentials" ->
                 IF emailCodeFactor
                 THEN /\ attempts' = [attempts EXCEPT
                                        ![i].awaiting = "prepareSecondFactor"]
                      /\ signInPage' = page
                 ELSE Finish(i, [page EXCEPT !.step = "otp"])
            [] OTHER ->
                 Finish(i, [page EXCEPT !.error =
                              IF a.handler = "credentials"
                              THEN "could not be completed"
                              ELSE "verification failed"])
       /\ UNCHANGED signInOthers

\* setActive or signIn.prepareSecondFactor settles for attempt i
ClerkSettles ==
  \E i \in 1..Len(attempts), ok \in BOOLEAN :
    LET a == attempts[i]
    IN /\ a.awaiting \in {"setActive", "prepareSecondFactor"}
       /\ IF ~ok
          THEN Finish(i, [signInPage EXCEPT !.error = "clerk"])
          ELSE IF a.awaiting = "setActive"
          THEN Finish(i, [signInPage EXCEPT !.sessionActive = TRUE, !.path = "/"])
          ELSE Finish(i, [signInPage EXCEPT !.step = "otp"])
       /\ UNCHANGED signInOthers

\* Back to sign in
BackToSignIn ==
  /\ signInPage.path = "/sign-in"
  /\ signInPage.step = "otp"
  /\ signInPage' = [signInPage EXCEPT !.step = "credentials", !.error = "",
                                      !.otp = ""]
  /\ UNCHANGED <<attempts, signInOthers>>

SignInInit == Init

SignInNext ==
  \/ ClerkLoads
  \/ ToggleShowPassword
  \/ TypeOtp
  \/ HandleCredentials
  \/ HandleOtp
  \/ ClerkAnswers
  \/ ClerkSettles
  \/ BackToSignIn

SignInSpec == SignInInit /\ [][SignInNext]_vars

\* ------------------------------------------------------------------------
\* Properties of the reconciliation (checked under Spec)
\* ------------------------------------------------------------------------
IsPass(op) == op \in {"sync", "restore"}

\* C1: a member under manual override keeps its availability, isOutOfOffice
\* and slackOooUntil through every automated pass (sync or expiry sweep).
OverrideWins ==
  [][\A m \in MemberIds :
       (members[m].manuallyOverridden /\ IsPass(lastOp')) =>
         /\ members'[m].leaveStatus = members[m].leaveStatus
         /\ members'[m].isOOO = members[m].isOOO
         /\ members'[m].slackOooUntil = members[m].slackOooUntil]_vars

\* C2: manualOverrideActive goes from true to false only in a clearOverride
\* step.
OverrideSticky ==
  [][\A m \in MemberIds :
       (members[m].manuallyOverridden /\ ~members'[m].manuallyOverridden) =>
         lastOp' = "clearOverride"]_vars

\* C3: an announcement with a future start and no end is recorded as pending
\* and does not put the member out of office before its start; once the start
\* has come, a sweep or sync pass leaves the member out of office.
FutureActivation ==
  [][\A m \in MemberIds :
       LET mine == {i \in 1..Len(lastResult'.changes) :
                      lastResult'.changes[i].memberId = m}
           openFuture(i) ==
             /\ lastResult'.changes[i].startDate > now'
             /\ lastResult'.changes[i].endDate = Null
       IN /\ (lastOp' = "sync" /\ mine # {} /\ \A i \in mine : openFuture(i)) =>
               /\ \A i \in mine : lastResult'.changes[i].pending
               /\ members'[m].isOOO => members[m].isOOO
          /\ (/\ IsPass(lastOp')
              /\ ~members'[m].manuallyOverridden
              /\ members'[m].slackOooStart # Null
              /\ members'[m].slackOooUntil = Null
              /\ members'[m].slackOooStart <= now') => members'[m].isOOO]_vars

Occurrences(q, x) == Cardinality({i \in 1..Len(q) : q[i] = x})

\* C5: after a sync pass, every active announcement matched to a member (and
\* not followed in the pass by another one for the same member) leaves that
\* member ooo, out of office, Slack-sourced, with slackOooUntil = endDate, and
\* has exactly one change record, with pending = false.
ActiveApplied ==
  lastOp = "sync" =>
    \A i \in 1..Len(lastEntries) :
      LET e == lastEntries[i]
          m == matched[e.personUsername]
      IN (/\ IsActive(e, now)
          /\ m # NoMember
          /\ \A j \in (i + 1)..Len(lastEntries) :
               matched[lastEntries[j].personUsername] # m) =>
           /\ members[m].leaveStatus = "ooo"
           /\ members[m].isOOO
           /\ members[m].source = "slack"
           /\ members[m].slackOooUntil = e.endDate
           /\ Occurrences(lastResult.changes, OOOChange(m, e, FALSE))
                = Occurrences(lastEntries, e)
           /\ Occurrences(lastResult.changes, OOOChange(m, e, TRUE)) = 0

\* A sync pass that applied an active announcement with an end date.
ActiveWitness ==
  /\ lastOp = "sync"
  /\ lastEntries # <<>>
  /\ IsActive(lastEntries[1], now)
  /\ lastEntries[1].endDate # Null
  /\ matched[lastEntries[1].personUsername] # NoMember
  /\ lastResult.applied = 1

\* Members the sweep has to restore according to the contract.
DueForRestore(mem, today) ==
  {m \in MemberIds :
     /\ ~mem[m].manuallyOverridden
     /\ mem[m].slackOooUntil # Null
     /\ mem[m].slackOooUntil < today}

RestoreIdempotent ==
  /\ lastOp = "restore" =>
       LET again == RestoreExpiredSlackOoo(members, now)
       IN again.mem = members /\ again.ids = {}
  /\ LET once == RestoreExpiredSlackOoo(members, now)
         twice == RestoreExpiredSlackOoo(once.mem, now)
     IN twice.mem = once.mem /\ twice.ids = {}

\* A sweep that restored a member: the first of the two calls did something.
IdempotentWitness ==
  /\ lastOp = "restore"
  /\ \E m \in restored :
       members[m].leaveStatus = "available" /\ members[m].slackOooUntil = Null

\* C8: every member is out of office exactly when its availability is ooo.
OOOConsistent ==
  \A m \in MemberIds : members[m].isOOO <=> (members[m].leaveStatus = "ooo")

\* One member out of office by Slack, the other set to partial by hand.
ConsistentWitness ==
  \E m, k \in MemberIds :
    /\ members[m].isOOO /\ members[m].source = "slack"
    /\ members[k].leaveStatus = "partial" /\ members[k].manuallyOverridden

\* The outcome the contract gives an announcement at time today.
Outcome(e, today) ==
  IF /\ e.startDate # Null /\ e.startDate < today
     /\ e.endDate # Null /\ e.endDate < today
  THEN "skip"
  ELSE IF /\ e.startDate # Null /\ e.startDate <= today
          /\ (e.endDate = Null \/ e.endDate >= today)
  THEN "active"
  ELSE IF e.startDate # Null /\ e.startDate > today
  THEN "future"
  ELSE "skip"

\* The announcements of a pass that match a member and are not skipped, in
\* the order of the pass.
RECURSIVE Kept(_, _)
Kept(entries, today) ==
  IF entries = <<>> THEN <<>>
  ELSE LET e == Head(entries)
       IN IF matched[e.personUsername] # NoMember /\ Outcome(e, today) # "skip"
          THEN <<e>> \o Kept(Tail(entries), today)
          ELSE Kept(Tail(entries), today)

RefRatio(ref, m) == Ratio(Normalise(ref), ToLower(MemberName[m]))

InRoster(roster) == {roster[i] : i \in 1..Len(roster)}

\* C9: the matcher returns a roster member of highest similarity to the
\* normalised reference when that similarity is at least 0.75, and no member
\* otherwise (as for an empty roster).
MatchIsBest ==
  matchResult # Pending =>
    LET ids == InRoster(matchRoster)
        good == {m \in ids : RatioGE(RefRatio(matchRef, m), Threshold)}
    IN IF good = {}
       THEN matchResult = NoMember
       ELSE /\ matchResult \in good
            /\ \A m \in ids :
                 RatioGE(RefRatio(matchRef, matchResult), RefRatio(matchRef, m))

\* The matcher picked the better of two members for a reference whose
\* similarity is exactly 0.75.
MatchWitness ==
  /\ matchRef = RefJordanOnly
  /\ Len(matchRoster) = 2
  /\ matchResult = "mem-1"

\* C10: the first name alone matches the two-word name: "maya" against a
\* roster holding only Maya Patel returns that member.
FirstNameMatches ==
  (/\ matchRef = RefFirstName
   /\ matchRoster = <<"mem-2">>
   /\ matchResult # Pending) => matchResult = "mem-2"

\* Roster members whose similarity to the reference is maximal in the roster
\* and at least 0.75.
TopMatches(ref, roster) ==
  {i \in 1..Len(roster) :
     /\ RatioGE(RefRatio(ref, roster[i]), Threshold)
     /\ \A j \in 1..Len(roster) :
          RatioGE(RefRatio(ref, roster[i]), RefRatio(ref, roster[j]))}

\* C11: when several roster members share the maximal similarity (>= 0.75),
\* the matcher returns the first of them in roster iteration order.
TieFirst ==
  (matchResult # Pending /\ TopMatches(matchRef, matchRoster) # {}) =>
    matchResult = matchRoster[SetMin(TopMatches(matchRef, matchRoster))]

\* "maya pat" is equally close to Maya Patil and Maya Patel; Maya Patil comes
\* first in the roster and is returned.
TieWitness ==
  /\ matchRef = RefSurnameCut
  /\ matchRoster = <<"mem-3", "mem-2">>
  /\ Cardinality(TopMatches(matchRef, matchRoster)) = 2
  /\ matchResult = "mem-3"

\* ------------------------------------------------------------------------
\* Properties of the score (checked under ScoreSpec)
\* ------------------------------------------------------------------------
\* The double just below a double > 0.
Pred(x) ==
  LET j == SetMax(Ones(x.m))
      d == [i \in 1..53 |-> IF i < j THEN x.m[i] ELSE IF i = j THEN 0 ELSE 1]
  IN IF d[1] = 1 THEN [x EXCEPT !.m = d]
     ELSE [x EXCEPT !.m = [i \in 1..53 |-> 1], !.e = @ - 1]

\* The number a decimal literal of (7 * calendarPct + 3 * skillMatchPct) / 10
\* denotes: 76.7 for 71 and 90.
ExactScore(skill, cal) == Literal(7 * cal + 3 * skill, 10)

\* C13 as stated: the score of every pair of percentages is the number
\* calendarFreePct * 0.7 + skillMatchPct * 0.3, 76.7 for 71 and 90.
ScoreExact ==
  score # <<>> => score[1] = ExactScore(scoreSkill, scoreCal)

\* C13, amended: the score is calendarPct * 0.7 + skillMatchPct * 0.3 in
\* double precision: the double nearest the exact value or one of the two
\* doubles just below it; for 71 and 90 it is the double just below 76.7.
ScoreNearExact ==
  score # <<>> =>
    LET x == ExactScore(scoreSkill, scoreCal)
    IN /\ \/ score[1] = x
          \/ x # Zero /\ score[1] = Pred(x)
          \/ x # Zero /\ score[1] = Pred(Pred(x))
       /\ (scoreCal = 71 /\ scoreSkill = 90) => score[1] = Pred(Literal(767, 10))

\* The score of calendarPct 71 and skillMatchPct 90 has been computed.
ScoreWitness ==
  /\ scoreCal = 71
  /\ scoreSkill = 90
  /\ score # <<>>
  /\ FLess(score[1], Literal(767, 10))
  /\ FLess(Literal(7669, 100), score[1])

\* C14: one point more of calendarPct, or one point more of skillMatchPct,
\* never lowers the score; so the score is non-decreasing in each argument
\* over 0..100.
ScoreMonotone ==
  [][(score # <<>> /\ score' # <<>>) => ~FLess(score'[1], score[1])]_vars

\* The score rose with the skill match.
MonotoneWitness ==
  /\ score # <<>>
  /\ scoreSkill = MaxPct
  /\ scoreCal = MaxPct
  /\ score[1] = ToNumber(MaxPct)

\* ------------------------------------------------------------------------
\* Properties of the ranking (checked under RankSpec)
\* ------------------------------------------------------------------------
\* Position of member m in a list of suggestions.
PositionOf(q, m) == CHOOSE i \in 1..Len(q) : q[i].memberId = m

\* C15: the ranked list holds every suggestion of the task exactly once, in
\* descending order of combined score, and two suggestions of equal combined
\* score keep the order they have in the task.
RankedStable ==
  rankPhase = "ranked" =>
    /\ Len(sortedSuggestions) = Len(taskSuggestions)
    /\ \A i \in 1..Len(taskSuggestions) :
         \E j \in 1..Len(sortedSuggestions) :
           /\ sortedSuggestions[j].memberId = taskSuggestions[i].memberId
           /\ sortedSuggestions[j].skillMatchPct = taskSuggestions[i].skillMatchPct
           /\ sortedSuggestions[j].contextReason = taskSuggestions[i].contextReason
    /\ \A i, j \in 1..Len(sortedSuggestions) :
         i < j =>
           /\ ~FLess(sortedSuggestions[i].combined, sortedSuggestions[j].combined)
           /\ sortedSuggestions[i].combined = sortedSuggestions[j].combined =>
                PositionOf(taskSuggestions, sortedSuggestions[i].memberId)
                  < PositionOf(taskSuggestions, sortedSuggestions[j].memberId)

\* Two candidates of equal score (the roster has not arrived, both have skill
\* match 90): Maya Patel, first in the task, is ranked first.
RankedWitness ==
  /\ rankPhase = "ranked"
  /\ ~membersLoaded
  /\ Len(sortedSuggestions) = 2
  /\ taskSuggestions[1].memberId = "mem-2"
  /\ sortedSuggestions[1].memberId = "mem-2"
  /\ sortedSuggestions[2].memberId = "mem-1"
  /\ sortedSuggestions[1].combined = sortedSuggestions[2].combined
  /\ sortedSuggestions[1].combined = ToNumber(27)

\* The ranked entry of member m.
RankedOf(m) == sortedSuggestions[PositionOf(sortedSuggestions, m)]

\* Suggestions of the task whose pair has no scored entry.
Unscored == {i \in 1..Len(mockSuggestions) : mockSuggestions[i].memberId \notin scoredIds}

\* C16 as stated: a candidate whose pair has no skill score is ranked with
\* skillMatchPct taken as 0, that is with combined score calendarPct * 0.7.
MissingSkillAsZero ==
  rankPhase = "ranked" =>
    \A i \in Unscored :
      RankedOf(mockSuggestions[i].memberId).combined
        = FMul(ToNumber(CalPctOf(mockSuggestions[i].memberId, membersLoaded)),
               Literal(7, 10))

\* C16, amended: ranking never fails on missing data: a candidate whose pair
\* has no skill score keeps the skillMatchPct of the mock data and is ranked
\* with it; a candidate whose member record is missing is ranked with
\* calendarPct 0; every candidate is ranked and every score is a number.
MissingSkillKeepsMock ==
  rankPhase = "ranked" =>
    /\ Len(sortedSuggestions) = Len(mockSuggestions)
    /\ \A i \in 1..Len(mockSuggestions) :
         LET m == mockSuggestions[i].memberId
             r == RankedOf(m)
         IN /\ \E j \in 1..Len(sortedSuggestions) : sortedSuggestions[j].memberId = m
            /\ ~r.combined.nan
            /\ i \in Unscored =>
                 /\ r.skillMatchPct = mockSuggestions[i].skillMatchPct
                 /\ r.combined =
                      FAdd(FMul(ToNumber(CalPctOf(m, membersLoaded)), Literal(7, 10)),
                           FMul(ToNumber(mockSuggestions[i].skillMatchPct),
                                Literal(3, 10)))
            /\ ~membersLoaded =>
                 r.combined = FMul(ToNumber(r.skillMatchPct), Literal(3, 10))

\* Jordan Lee has no scored entry for the task and skillMatchPct 90 in the
\* mock data: he is ranked with 71 * 0.7 + 90 * 0.3.
MissingSkillWitness ==
  /\ rankPhase = "ranked"
  /\ membersLoaded
  /\ "mem-1" \notin scoredIds
  /\ \E i \in 1..Len(mockSuggestions) :
       mockSuggestions[i] = Suggestion("mem-1", 90, "mock")
  /\ \E j \in 1..Len(sortedSuggestions) :
       /\ sortedSuggestions[j].memberId = "mem-1"
       /\ sortedSuggestions[j].skillMatchPct = 90
       /\ sortedSuggestions[j].combined = Pred(Literal(767, 10))

\* ------------------------------------------------------------------------
\* Properties of the tasks (checked under TaskSpec)
\* ------------------------------------------------------------------------
\* a reassign, an unassign, of a known task completes in this step
ReassignCompletes ==
  request.op = "reassign" /\ request.phase = "ok" /\ taskOp' = "reassignDone"
UnassignCompletes ==
  request.op = "unassign" /\ request.phase = "ok" /\ taskOp' = "unassignDone"

\* the task and the status the panel shows for it, after the step
TaskAfter(t, assignee, status) ==
  /\ serverTasks'[t] = Task(assignee, status)
  /\ ShownStatus(t)' = status

\* C17: when a reassign of a known task completes, the task has the chosen
\* member as assignee and status covered; when a following unassign
\* completes, it has no assignee and status unassigned; each time the panel
\* (local override if present, else the fetched status) shows that status.
ReassignThenUnassign ==
  [][\A t \in ClientTaskIds, m \in AssigneeIds \cup {NoAssignee} :
       (request.taskId = t /\ request.memberId = m)
       => /\ ReassignCompletes => TaskAfter(t, m, "covered")
          /\ UnassignCompletes => TaskAfter(t, NoAssignee, "unassigned")]_vars

\* an unassign has just completed on a task that a reassign had covered
ReassignThenUnassignWitness ==
  /\ taskOp = "unassignDone"
  /\ toast = "info"
  /\ serverTasks["task-001"] = Task(NoAssignee, "unassigned")
  /\ clientTasks["task-001"] = Task("mem-2", "covered")
  /\ ShownStatus("task-001") = "unassigned"

\* C18: no step moves a task from covered to at-risk, neither in the
\* server's task table nor in the panel's local override; a covered task
\* stays covered or becomes unassigned.
CoveredNeverAtRisk ==
  [][/\ \A t \in ServerTaskIds :
          serverTasks[t].status = "covered"
          => serverTasks'[t].status \in {"covered", "unassigned"}
     /\ \A t \in ClientTaskIds :
          taskStatusOverrides[t] = "covered"
          => taskStatusOverrides'[t] \in {"covered", "unassigned"}]_vars

\* C19: a reassign, an unassign or a status change on a task id the server
\* does not know ends in an error for the caller and changes nothing: the
\* server's task table stays as it was, and once the handler has finished
\* the panel shows for that task the status it showed before the call.
UnknownTaskNoEffect ==
  [][\A t \in ClientTaskIds \ ServerTaskIds :
       /\ (request.taskId = t /\ request.phase = "sent")
          => (serverTasks' = serverTasks /\ request'.phase = "error")
       /\ \A before \in TaskStatuses :
            (/\ request.taskId = t
             /\ request.phase = "error"
             /\ request.shownBefore = before
             /\ taskOp' \in {"reassignDone", "unassignDone"})
            => (toast' = "error" /\ ShownStatus(t)' = before)
       /\ taskOp' = "patchStatus404" => UNCHANGED <<serverTasks, clientTasks,
                                                    taskStatusOverrides>>]_vars

\* ------------------------------------------------------------------------
\* Properties of concurrent sync requests (checked under RequestsSpec)
\* ------------------------------------------------------------------------
\* the requests between their first step and their last
InFlight == {p \in Pages : syncs[p].phase # "idle"}

\* C20: at most one sync request is in flight at any time, so the steps of
\* one pass (sweep, fetch, apply) are never interleaved with another's.
OnePassInFlight == Cardinality(InFlight) <= 1

Applies(p) == syncs[p].phase = "fetched" /\ syncs'[p].phase = "idle"

\* C22 as stated: when a request applies its announcements, it has run its
\* sweep before, and no member carries a Slack OOO that has expired and is
\* not restored.
AppliedOnRestored ==
  [][\A p \in Pages :
       Applies(p) => \A m \in MemberIds : ~IsExpired(members[m], now)]_vars

\* C22 as the route has it: when a request applies its announcements, it has
\* run its sweep before, and no member carries a Slack OOO that had expired
\* when that sweep ran.
AppliedOnSwept ==
  [][/\ lastOp' = "syncApply" => \E p \in Pages : Applies(p)
     /\ \A p \in Pages :
          /\ (syncs[p].phase = "idle" /\ syncs'[p].phase # "idle")
             => (lastOp' = "syncRestore" /\ syncs'[p].phase = "restored")
          /\ Applies(p)
             => \A m \in MemberIds : ~IsExpired(members[m], syncs[p].sweptAt)]_vars

\* since the last tick a sweep has restored mem-1, whose Slack OOO had
\* expired, and an apply pass has then put mem-2 out of office
AppliedOnSweptWitness ==
  /\ lastOp = "syncApply"
  /\ restored = {"mem-1"}
  /\ ~members["mem-1"].isOOO
  /\ members["mem-1"].slackOooUntil = Null
  /\ lastResult.applied = 1
  /\ lastResult.changes[1].memberId = "mem-2"
  /\ ~lastResult.changes[1].pending
  /\ members["mem-2"].isOOO

\* C25: the pipelineRunning flag of a task does not stay set once suggestions
\* exist: whenever the flag is set and the panel holds at least one
\* suggestion for the task, the flag is eventually cleared (or the
\* suggestions are gone again), without the Refresh button.
FlagCleared ==
  \A t \in ClientTaskIds :
    (pipelineRunning[t] /\ taskSuggestionsLength[t] > 0)
    ~> (~pipelineRunning[t] \/ taskSuggestionsLength[t] = 0)

\* a reassign has put the task's shown status to covered
CoveredByReassign(t) ==
  t \in DOMAIN clientTasks /\ taskStatusOverrides[t] = "covered"

\* C26: no task is shown covered through a reassign while its
\* pipelineRunning flag is set.
ReassignedNotRunning ==
  \A t \in ClientTaskIds : CoveredByReassign(t) => ~pipelineRunning[t]

\* task-001 was unassigned, its flag was set and cleared again, and it was
\* then reassigned
ReassignedNotRunningWitness ==
  /\ taskOp = "reassignDone"
  /\ toast = "success"
  /\ CoveredByReassign("task-001")
  /\ serverTasks["task-001"].status = "covered"
  /\ clientTasks["task-001"].status = "covered"
  /\ ~pipelineRunning["task-001"]

\* the change records of a result that carry the pending flag
PendingChanges(result) ==
  {i \in 1..Len(result.changes) : result.changes[i].pending}

OnePingPerPair ==
  [][\A k \in PingKeys :
       /\ pingRequests'[k].issued <= 1
       /\ pingRequests'[k].inFlight < pingRequests[k].inFlight => pingSent'[k]
       /\ pingSent[k] => pingSent'[k]]_vars

\* ------------------------------------------------------------------------
\* Properties of the suggestion rows (checked under RankSpec)
\* ------------------------------------------------------------------------
\* C29: the rank numbers of the rows rendered are 1..k in this order, k being
\* the number of rows, whatever the suggestions and the member list are.
RanksConsecutive ==
  rankPhase = "ranked" =>
    LET ranks == RowRanks(sortedSuggestions, membersLoaded)
    IN \A j \in 1..Len(ranks) : ranks[j] = j

\* ------------------------------------------------------------------------
\* Property of the sign-in page (checked under SignInSpec)
\* ------------------------------------------------------------------------
\* C30: the page goes to "/" only in the step where setActive resolved for an
\* attempt (credentials or OTP) whose answer was status "complete", and the
\* session is active then; the step becomes "otp" only from a credentials
\* attempt answered "needs_second_factor"; no attempt is started while loading
\* is true, so at most one is in flight; and whenever an attempt ends, by
\* success, failure or an exception, loading is false.
SignInFlow ==
  [][ /\ (signInPage'.path = "/" /\ signInPage.path # "/")
         => /\ \E i \in 1..Len(attempts) : attempts[i].awaiting = "setActive"
            /\ signInPage.status = "complete"
            /\ signInPage.handler \in {"credentials", "otp"}
            /\ signInPage'.sessionActive
      /\ (signInPage'.step = "otp" /\ signInPage.step # "otp")
         => /\ signInPage'.handler = "credentials"
            /\ signInPage'.status = "needs_second_factor"
      /\ Len(attempts') > Len(attempts) => ~signInPage.loading
      /\ Len(attempts') <= 1
      /\ Len(attempts') < Len(attempts) => ~signInPage'.loading
    ]_vars

\* An OTP attempt answered "complete" has activated the session and gone to "/"
\* with loading false again, after a credentials attempt that needed the second
\* factor and ended.
SignInFlowWitness ==
  /\ signInPage.path = "/"
  /\ signInPage.sessionActive
  /\ signInPage.handler = "otp"
  /\ signInPage.status = "complete"
  /\ signInPage.step = "otp"
  /\ ~signInPage.loading
  /\ attempts = <<>>

====
